---------------------------- MODULE Spec2Model ----------------------------
(***************************************************************************)
(* Model of the two worker scripts of the trading-signal repository:       *)
(*   - src/unnamed/part_000 : class TradingWorker (rate limiter, no cache) *)
(*   - src/index.js         : handleRequest (result cache, signal filter)  *)
(* A request handler is an async function; every segment between two       *)
(* awaits runs atomically on the single JavaScript thread and is one       *)
(* action here.  Prices are integers in 1/10000 units, times are in ms.    *)
(***************************************************************************)
EXTENDS Integers, Sequences, FiniteSets, TLC

(***************************************************************************)
(* Program constants                                                       *)
(***************************************************************************)
CooldownMs == 12000
CACHE_TTL == 30000
MaxExplanation == 500

(***************************************************************************)
(* Bounds of the model                                                     *)
(***************************************************************************)
\* number of clock ticks the model lets pass
MaxTicks == 4
\* length of the over-long explanation the model endpoint may return
LongLen == 600

(***************************************************************************)
(* JavaScript values (what JSON.parse can return, plus undefined)          *)
(***************************************************************************)
Undef == [t |-> "undefined"]
Null == [t |-> "null"]
Str(s) == [t |-> "string", s |-> s]
Num(n) == [t |-> "number", n |-> n]
Bool(b) == [t |-> "boolean", b |-> b]
Arr == [t |-> "array"]
Obj(f) == [t |-> "object", f |-> f]

\* ToBoolean(v)
Truthy(v) ==
  CASE v.t = "undefined" -> FALSE
    [] v.t = "null" -> FALSE
    [] v.t = "string" -> v.s # ""
    [] v.t = "number" -> v.n # 0
    [] v.t = "boolean" -> v.b
    [] OTHER -> TRUE

\* v.name for a parsed JSON value v that is not null/undefined
Prop(v, name) ==
  IF v.t = "object" /\ name \in DOMAIN v.f THEN v.f[name] ELSE Undef

\* String.prototype.toLowerCase on the strings the model uses
ToLowerCase(s) ==
  CASE s = "BUY" -> "buy"
    [] s = "Buy" -> "buy"
    [] s = "SELL" -> "sell"
    [] s = "Sell" -> "sell"
    [] s = "HOLD" -> "hold"
    [] s = "STRONG BUY" -> "strong buy"
    [] OTHER -> s

SignalEnum == {"buy", "sell", "hold"}
ConfidenceEnum == {"high", "medium", "low"}

RECURSIVE Rep(_, _)
\* a string of n characters
Rep(c, n) ==
  IF n = 0 THEN ""
  ELSE IF n % 2 = 0 THEN LET h == Rep(c, n \div 2) IN h \o h
  ELSE c \o Rep(c, n - 1)

Min(a, b) == IF a < b THEN a ELSE b

\* String.prototype.substring(0, n)
Substring0(s, n) == SubSeq(s, 1, Min(n, Len(s)))

(***************************************************************************)
(* Raw model text: a sequence of tokens.  "fence" is a ``` or ```json      *)
(* marker, "ws" white space, "json" one complete JSON value, "junk" any    *)
(* characters that are not JSON.                                           *)
(***************************************************************************)
Fence == [k |-> "fence"]
Ws == [k |-> "ws"]
Junk == [k |-> "junk"]
Json(v) == [k |-> "json", v |-> v]

RECURSIVE StripFences(_)
\* text.replace(/```json|```/g, "")
StripFences(text) ==
  IF text = <<>> THEN <<>>
  ELSE IF Head(text).k = "fence" THEN StripFences(Tail(text))
  ELSE <<Head(text)>> \o StripFences(Tail(text))

RECURSIVE TrimLeft(_)
TrimLeft(text) ==
  IF text # <<>> /\ Head(text).k = "ws" THEN TrimLeft(Tail(text)) ELSE text

RECURSIVE TrimRight(_)
TrimRight(text) ==
  IF text # <<>> /\ text[Len(text)].k = "ws"
  THEN TrimRight(SubSeq(text, 1, Len(text) - 1))
  ELSE text

\* String.prototype.trim
Trim(text) == TrimRight(TrimLeft(text))

\* JSON.parse succeeds iff the text is one JSON value (white space around it
\* is allowed by the JSON grammar)
JsonParses(text) == Len(Trim(text)) = 1 /\ Trim(text)[1].k = "json"
JsonValue(text) == Trim(text)[1].v

\* JSON.stringify of a value, as raw text
Stringify(v) == <<Json(v)>>

(***************************************************************************)
(* A Signal object: signal is always a string; confidence and explanation  *)
(* are JavaScript values (Undef = the property is absent).                 *)
(***************************************************************************)
MkSignal(sig, conf, expl) ==
  [signal |-> sig, confidence |-> conf, explanation |-> expl]

\* JSON.stringify(signal object): undefined properties are dropped
SignalJson(sg) ==
  IF sg.confidence = Undef
  THEN Obj([signal |-> Str(sg.signal), explanation |-> sg.explanation])
  ELSE Obj([signal |-> Str(sg.signal), confidence |-> sg.confidence,
            explanation |-> sg.explanation])

\* indicators.<name> as a number, when present
HasNum(rec, name) == name \in DOMAIN rec

\* mutant: an RSI of exactly 70 still counts as not overbought
generateFallbackSignal_Mutant(ind) ==
  LET full == HasNum(ind, "ema9") /\ HasNum(ind, "ema21") /\ HasNum(ind, "rsi")
  IN  IF full /\ ind.ema9 > ind.ema21 /\ ind.rsi <= 70
      THEN MkSignal("buy", Undef, Str("Fallback: EMA bullish & RSI not overbought"))
      ELSE IF full /\ ind.ema9 < ind.ema21 /\ ind.rsi > 30
      THEN MkSignal("sell", Undef, Str("Fallback: EMA bearish & RSI not oversold"))
      ELSE MkSignal("hold", Undef, Str("Fallback: No clear trend"))

\* TradingAI.generateFallbackSignal(indicators): a comparison with undefined
\* is false
generateFallbackSignal(ind) ==
  LET full == HasNum(ind, "ema9") /\ HasNum(ind, "ema21") /\ HasNum(ind, "rsi")
  IN  IF full /\ ind.ema9 > ind.ema21 /\ ind.rsi < 70
      THEN MkSignal("buy", Undef, Str("Fallback: EMA bullish & RSI not overbought"))
      ELSE IF full /\ ind.ema9 < ind.ema21 /\ ind.rsi > 30
      THEN MkSignal("sell", Undef, Str("Fallback: EMA bearish & RSI not oversold"))
      ELSE MkSignal("hold", Undef, Str("Fallback: No clear trend"))

\* the object {} passed by tryParseAI
EmptyIndicators == <<>>

\* The try block of TradingAI.tryParseAI: TRUE iff it throws
tryParseThrows(cleaned) ==
  \/ ~JsonParses(cleaned)
  \/ LET parsed == JsonValue(cleaned)
         sig == Prop(parsed, "signal")
         expl == Prop(parsed, "explanation")
     IN  \/ parsed.t = "null"
         \/ sig.t # "string"
         \/ ToLowerCase(sig.s) \notin SignalEnum
         \/ (Truthy(expl) /\ expl.t # "string")

\* mutant: the code fences are not stripped before JSON.parse
tryParseAI_Mutant(aiRespText) ==
  LET cleaned == Trim(aiRespText)
  IN  IF tryParseThrows(cleaned)
      THEN generateFallbackSignal(EmptyIndicators)
      ELSE LET parsed == JsonValue(cleaned)
               expl == Prop(parsed, "explanation")
           IN  MkSignal(ToLowerCase(Prop(parsed, "signal").s), Undef,
                        IF Truthy(expl)
                        THEN Str(Substring0(expl.s, MaxExplanation))
                        ELSE Str("No explanation"))

\* TradingAI.tryParseAI(aiRespText)
tryParseAI(aiRespText) ==
  LET cleaned == Trim(StripFences(aiRespText))
  IN  IF tryParseThrows(cleaned)
      THEN generateFallbackSignal(EmptyIndicators)
      ELSE LET parsed == JsonValue(cleaned)
               expl == Prop(parsed, "explanation")
           IN  MkSignal(ToLowerCase(Prop(parsed, "signal").s), Undef,
                        IF Truthy(expl)
                        THEN Str(Substring0(expl.s, MaxExplanation))
                        ELSE Str("No explanation"))

\* The try block of parseAIResponse (index.js): TRUE iff it throws
parseAIThrows(cleaned) ==
  \/ ~JsonParses(cleaned)
  \/ LET parsed == JsonValue(cleaned)
         sig == Prop(parsed, "signal")
     IN  \/ parsed.t = "null"
         \/ ~Truthy(sig)
         \/ sig.t # "string"
         \/ ToLowerCase(sig.s) \notin SignalEnum

\* parseAIResponse(aiText) of index.js
parseAIResponse(aiText) ==
  LET cleaned == Trim(StripFences(aiText))
  IN  IF parseAIThrows(cleaned)
      THEN MkSignal("hold", Str("low"), Str("Error parsing AI response"))
      ELSE LET parsed == JsonValue(cleaned)
               conf == Prop(parsed, "confidence")
               expl == Prop(parsed, "explanation")
           IN  MkSignal(ToLowerCase(Prop(parsed, "signal").s),
                        IF Truthy(conf) THEN conf ELSE Str("medium"),
                        IF Truthy(expl) THEN expl
                        ELSE Str("No explanation provided"))


\* String(v) as done by a template literal, for the values the model uses
ToStringJS(v) ==
  CASE v.t = "string" -> v.s
    [] v.t = "number" -> "7"
    [] v.t = "boolean" -> IF v.b THEN "true" ELSE "false"
    [] v.t = "object" -> "[object Object]"
    [] v.t = "array" -> ""
    [] OTHER -> v.t

(***************************************************************************)
(* Request bodies.  A body is either malformed JSON ([json |-> FALSE]) or  *)
(* a record whose DOMAIN holds the properties present in the JSON object.  *)
(***************************************************************************)
Has(b, name) == name \in DOMAIN b

WorkerNumFields == {"adx", "atr", "volume_ratio", "support", "resistance"}
WorkerStrFields == {"symbol", "tf", "pattern", "session"}

\* !bodyJson[field] in TradingWorker.parseRequest
FieldFalsy(b, name) ==
  \/ ~Has(b, name)
  \/ (name \in WorkerNumFields /\ b[name] = 0)
  \/ (name \in WorkerStrFields /\ b[name] = "")

\* const required = [...] in TradingWorker.parseRequest
Required ==
  << "symbol", "tf", "ohlc", "indicators", "adx", "atr", "volume_ratio",
     "pattern", "session", "support", "resistance" >>

\* TradingWorker.parseRequest: "" when the body is accepted, else the error
\* text of the 400 response
parseRequestError(b) ==
  IF ~b.json THEN "Invalid JSON"
  ELSE LET bad == {i \in 1..Len(Required) : FieldFalsy(b, Required[i])}
       IN  IF bad = {} THEN ""
           ELSE "Missing " \o Required[CHOOSE i \in bad : \A j \in bad : i <= j]

\* validateIndicator(value, min, max, name) does not throw (max = -1: Infinity)
IndicatorOk(rec, name, lo, hi) ==
  /\ HasNum(rec, name)
  /\ rec[name] >= lo
  /\ (hi < 0 \/ rec[name] <= hi)

\* TradingAI.validateInputs(data) returns without throwing
validateInputs(data) ==
  /\ IndicatorOk(data.indicators, "rsi", 0, 100)
  /\ IndicatorOk(data, "adx", 0, 100)
  /\ IndicatorOk(data, "atr", 0, -1)
  /\ ~(data.ohlc.high < data.ohlc.low)
  /\ ~(\/ data.ohlc.open <= 0 \/ data.ohlc.high <= 0
       \/ data.ohlc.low <= 0 \/ data.ohlc.close <= 0)

\* calculateDerivedValues and buildAIPrompt return without throwing: every
\* value formatted with toFixed must be a number; macd_hist_prev is read from
\* data, not from the destructured default
buildAIPromptOk(data) ==
  /\ Has(data, "macd_hist_prev")
  /\ HasNum(data.indicators, "ema9") /\ HasNum(data.indicators, "ema21")
  /\ HasNum(data.indicators, "macd") /\ HasNum(data.indicators, "macd_signal")

\* mutant: callAI builds the prompt without calling validateInputs
workerCallsModel_Mutant(data) == buildAIPromptOk(data)

\* TradingAI.callAI reaches fetchWithTimeout (nothing before it threw)
workerCallsModel(data) == validateInputs(data) /\ buildAIPromptOk(data)

\* data.indicators || {}
IndicatorsOrEmpty(data) ==
  IF Has(data, "indicators") THEN data.indicators ELSE EmptyIndicators

\* the catch block of TradingAI.callAI
callAIFallbackText(data) ==
  Stringify(SignalJson(generateFallbackSignal(IndicatorsOrEmpty(data))))

\* validateTradingData(ohlc, prevCandles, indicators, volume, avgVolume) of
\* index.js returns without throwing
validateTradingData(b) ==
  /\ Has(b, "ohlc")
  /\ ~(b.ohlc.high < b.ohlc.low)
  /\ ~(b.ohlc.open < 0 \/ b.ohlc.close < 0)
  /\ Has(b, "indicators")
  /\ HasNum(b.indicators, "rsi")
  /\ b.indicators.rsi >= 0 /\ b.indicators.rsi <= 100
  /\ HasNum(b.indicators, "macd") /\ HasNum(b.indicators, "macd_signal")
  /\ Has(b, "volume") /\ b.volume >= 0
  /\ Has(b, "avgVolume") /\ b.avgVolume > 0

\* the prompt template of callAI (index.js) evaluates without a TypeError
indexPromptOk(b) ==
  Has(b, "keyLevels") /\ Has(b, "higherTF") /\ Has(b, "marketContext")

\* callAI of index.js reaches fetch
indexCallsModel(b) == validateTradingData(b) /\ indexPromptOk(b)

\* mutant: the momentum rule reverses the signal instead of holding
filterSignal_Mutant(parsedSignal, indicators, volume, avgVolume, higherTF) ==
  IF parsedSignal.signal = "buy" /\ higherTF.d1Trend = "strong bearish"
  THEN MkSignal("hold", Str("low"),
                Str(ToStringJS(parsedSignal.explanation)
                    \o " (Rejected: Against D1 strong trend)"))
  ELSE IF parsedSignal.signal = "buy" /\ indicators.rsi > 70
          /\ volume * 10 < avgVolume * 12
  THEN MkSignal("sell", Str("low"), parsedSignal.explanation)
  ELSE IF parsedSignal.signal = "sell" /\ indicators.rsi < 30
          /\ volume * 10 < avgVolume * 12
  THEN MkSignal("buy", Str("low"), parsedSignal.explanation)
  ELSE parsedSignal

\* mutant: the momentum rule asks for 1.5 times the average volume
filterSignal_VolumeMutant(parsedSignal, indicators, volume, avgVolume, higherTF) ==
  IF parsedSignal.signal = "buy" /\ higherTF.d1Trend = "strong bearish"
  THEN MkSignal("hold", Str("low"),
                Str(ToStringJS(parsedSignal.explanation)
                    \o " (Rejected: Against D1 strong trend)"))
  ELSE IF \/ (parsedSignal.signal = "buy" /\ indicators.rsi > 70
              /\ volume * 10 < avgVolume * 15)
          \/ (parsedSignal.signal = "sell" /\ indicators.rsi < 30
              /\ volume * 10 < avgVolume * 15)
  THEN MkSignal("hold", Str("low"),
                Str(ToStringJS(parsedSignal.explanation)
                    \o " (Rejected: Extreme RSI without volume confirmation)"))
  ELSE parsedSignal

\* filterSignal(parsedSignal, indicators, volume, avgVolume, higherTF);
\* volume < avgVolume * 1.2 is compared in tenths
filterSignal(parsedSignal, indicators, volume, avgVolume, higherTF) ==
  IF parsedSignal.signal = "buy" /\ higherTF.d1Trend = "strong bearish"
  THEN MkSignal("hold", Str("low"),
                Str(ToStringJS(parsedSignal.explanation)
                    \o " (Rejected: Against D1 strong trend)"))
  ELSE IF \/ (parsedSignal.signal = "buy" /\ indicators.rsi > 70
              /\ volume * 10 < avgVolume * 12)
          \/ (parsedSignal.signal = "sell" /\ indicators.rsi < 30
              /\ volume * 10 < avgVolume * 12)
  THEN MkSignal("hold", Str("low"),
                Str(ToStringJS(parsedSignal.explanation)
                    \o " (Rejected: Extreme RSI without volume confirmation)"))
  ELSE parsedSignal

\* cacheKey = `${symbol}-${timeframe}-${JSON.stringify(ohlc)}`
cacheKey(b) ==
  << b.symbol, b.timeframe, IF Has(b, "ohlc") THEN b.ohlc ELSE <<>> >>

(***************************************************************************)
(* Inputs the environment may supply                                       *)
(***************************************************************************)
\* a complete, valid body for TradingWorker
WBase ==
  [json |-> TRUE, symbol |-> "EURUSD", tf |-> "M15",
   ohlc |-> [open |-> 11000, high |-> 11050, low |-> 10990, close |-> 11020],
   indicators |-> [rsi |-> 55, ema9 |-> 11010, ema21 |-> 11000,
                   macd |-> 5, macd_signal |-> 3],
   adx |-> 25, atr |-> 20, volume_ratio |-> 2, pattern |-> "hammer",
   session |-> "london", support |-> 10980, resistance |-> 11080,
   macd_hist_prev |-> 1]

\* b without property name
Without(b, name) == [k \in DOMAIN b \ {name} |-> b[k]]

\* request.json() rejects
BadJson == [json |-> FALSE]

WorkerBodies ==
  { WBase,
    [WBase EXCEPT !.indicators.ema9 = 10990],
    Without(WBase, "macd_hist_prev"),
    [WBase EXCEPT !.indicators.rsi = 150],
    [WBase EXCEPT !.adx = -1],
    [WBase EXCEPT !.atr = -1],
    [WBase EXCEPT !.ohlc.high = 10900],
    [WBase EXCEPT !.ohlc.open = 0],
    [WBase EXCEPT !.adx = 0],
    Without(WBase, "symbol"),
    BadJson }

\* a complete, valid body for handleRequest of index.js
IBase ==
  [json |-> TRUE, symbol |-> "EURUSD", timeframe |-> "H1",
   ohlc |-> [open |-> 11000, high |-> 11050, low |-> 10990, close |-> 11020],
   prevCandles |-> <<>>,
   indicators |-> [rsi |-> 55, ema9 |-> 11010, ema21 |-> 11000,
                   macd |-> 5, macd_signal |-> 3],
   volume |-> 10, avgVolume |-> 10,
   keyLevels |-> [s1 |-> 10980, r1 |-> 11080],
   higherTF |-> [h1Trend |-> "bullish", d1Trend |-> "bullish"],
   marketContext |-> [session |-> "london", volatility |-> "normal"]]

IndexBodies ==
  { IBase,
    [IBase EXCEPT !.indicators.rsi = 75],
    [IBase EXCEPT !.higherTF.d1Trend = "strong bearish"],
    [IBase EXCEPT !.indicators.rsi = 150],
    [IBase EXCEPT !.ohlc.high = 10900],
    [IBase EXCEPT !.ohlc.open = 0],
    [IBase EXCEPT !.ohlc.open = -1],
    Without(IBase, "symbol"),
    BadJson }

\* texts the model endpoint may put in choices[0].message.content
TextBuy ==
  << Fence, Ws,
     Json(Obj([signal |-> Str("BUY"), confidence |-> Str("high"),
               explanation |-> Str("trend up")])),
     Ws, Fence >>
TextSell ==
  << Json(Obj([signal |-> Str("sell"), explanation |-> Str("trend down")])) >>
TextLong ==
  << Json(Obj([signal |-> Str("buy"), confidence |-> Str("extreme"),
               explanation |-> Str(Rep("x", LongLen))])) >>
TextBadSignal == << Json(Obj([signal |-> Str("STRONG BUY")])) >>
TextNotJson == << Junk >>

AiTexts == {TextBuy, TextSell, TextLong, TextBadSignal, TextNotJson}

Methods == {"POST", "GET"}
\* request.headers.get("x-api-key"): null when the header is missing
Headers == {Null, Str("secret"), Str("wrong")}
\* globalThis.PRE_SHARED_TOKEN: undefined when not configured
Tokens == {Str("secret"), Undef}

(***************************************************************************)
(* Deployments.  A deployment fixes the script that runs, the configured   *)
(* token, the connections served concurrently, the bodies and model texts  *)
(* the outside world sends, and how many clock ticks are observed.         *)
(***************************************************************************)
Deployment(v, tk, conns, bodies, texts, ticks) ==
  [variant |-> v, token |-> tk, conns |-> conns, bodies |-> bodies,
   texts |-> texts, ticks |-> ticks]

Deployments ==
  \* TradingWorker, one request at a time, every body and text
  { Deployment("worker", tk, {1}, WorkerBodies, AiTexts, MaxTicks) : tk \in Tokens }
  \* TradingWorker, two overlapping requests
  \cup { Deployment("worker", Str("secret"), {1, 2},
                    {WBase, [WBase EXCEPT !.indicators.rsi = 150]},
                    {TextBuy}, MaxTicks) }
  \* handleRequest, one request at a time, every body and text, clock frozen
  \cup { Deployment("index", tk, {1}, IndexBodies, AiTexts, 0) : tk \in Tokens }
  \* handleRequest, one request at a time, with the clock running
  \cup { Deployment("index", Str("secret"), {1},
                    {IBase, [IBase EXCEPT !.indicators.rsi = 150],
                     [IBase EXCEPT !.symbol = "GBPUSD"]},
                    {TextBuy, TextSell}, MaxTicks) }
  \* handleRequest, two overlapping requests
  \cup { Deployment("index", Str("secret"), {1, 2}, {IBase}, {TextBuy}, MaxTicks) }

(***************************************************************************)
(* State                                                                   *)
(***************************************************************************)
VARIABLES
  env,              \* the deployment (never changes)
  now,              \* Date.now()
  lastRequestTime,  \* TradingWorker.lastRequestTime
  analysisCache,    \* analysisCache of index.js: cache key -> entry
  req,              \* the requests in flight, one per connection
  call              \* a single call of one of the pure functions

vars == <<env, now, lastRequestTime, analysisCache, req, call>>

NoSignal == MkSignal("", Undef, Undef)
NoResp == [status |-> 0, error |-> "", signal |-> NoSignal]
ErrorResp(status, error) == [status |-> status, error |-> error, signal |-> NoSignal]
\* new Response(JSON.stringify(signal)) with status 200
SignalResp(sg) == [status |-> 200, error |-> "", signal |-> sg]

\* pc: where the handler is suspended; at: the local const now of
\* TradingWorker.handle; gw, tg: how the model call and the notifier call of
\* this request settled
Idle ==
  [pc |-> "idle", at |-> 0, method |-> "", header |-> Null, body |-> BadJson,
   gw |-> "none", tg |-> "none", parsed |-> NoSignal, resp |-> NoResp]

\* a call of a pure function: its arguments, and once it has returned
\* (done) its result, or that it threw
NoCall ==
  [fn |-> "none", text |-> Undef, sg |-> NoSignal, rsi |-> 0, volume |-> 0,
   avgVolume |-> 0, d1Trend |-> "", ind |-> <<>>, done |-> FALSE,
   threw |-> FALSE, out |-> NoSignal]

\* a string argument holding the raw text
Text(tokens) == [t |-> "text", tokens |-> tokens]

\* Date.now() when the script is loaded: any time past the first cooldown
StartTime == 5 * CooldownMs

\* granularity of the clock: half the window of the deployed script
TickMs == IF env.variant = "worker" THEN CooldownMs \div 2 ELSE CACHE_TTL \div 2

Init ==
  /\ env \in Deployments
  /\ now = StartTime
  /\ lastRequestTime = 0
  /\ analysisCache = <<>>
  /\ req = [p \in env.conns |-> Idle]
  /\ call = NoCall

Tick ==
  /\ now < StartTime + env.ticks * TickMs
  /\ now' = now + TickMs
  /\ UNCHANGED <<env, lastRequestTime, analysisCache, req, call>>

\* a request that has been answered, or a connection not yet used
Free(p) == req[p].pc \in {"idle", "done"}

Respond(r, resp) == [r EXCEPT !.pc = "done", !.resp = resp]

(***************************************************************************)
(* TradingWorker (src/unnamed/part_000)                                    *)
(***************************************************************************)
\* TradingWorker.authenticateRequest
authenticateRequest(header) ==
  Truthy(header) /\ Truthy(env.token) /\ header = env.token

\* mutant: the comparison of the limiter is off by one
RateLimited_Mutant == now - lastRequestTime <= CooldownMs

\* the rate limiter of TradingWorker.handle rejects
RateLimited == now - lastRequestTime < CooldownMs

\* TradingWorker.handle up to its first await (request.json())
WHandle(p, method, header) ==
  /\ env.variant = "worker"
  /\ Free(p)
  /\ LET r == [Idle EXCEPT !.at = now, !.method = method, !.header = header]
     IN  IF RateLimited
         THEN /\ req' = [req EXCEPT ![p] = Respond(r, ErrorResp(429, "Too many requests"))]
              /\ UNCHANGED lastRequestTime
         ELSE /\ lastRequestTime' = now
              /\ req' = [req EXCEPT ![p] =
                   IF method # "POST"
                   THEN Respond(r, ErrorResp(405, "Method Not Allowed"))
                   ELSE IF ~authenticateRequest(header)
                   THEN Respond(r, ErrorResp(401, "Unauthorized"))
                   ELSE [r EXCEPT !.pc = "json"]]
  /\ UNCHANGED <<env, now, analysisCache, call>>

\* after callAI returned text: tryParseAI, then sendTelegramNotification
\* issues the notifier fetch
WInterpret(r, aiText, gw) ==
  [r EXCEPT !.pc = "telegram", !.gw = gw, !.parsed = tryParseAI(aiText)]

\* request.json() settled with body: parseRequest, then TradingAI.callAI up
\* to fetch
WJson(p, body) ==
  /\ env.variant = "worker"
  /\ req[p].pc = "json"
  /\ LET r == [req[p] EXCEPT !.body = body]
         err == parseRequestError(body)
     IN  req' = [req EXCEPT ![p] =
           IF err # "" THEN Respond(r, ErrorResp(400, err))
           ELSE IF workerCallsModel(body)
           THEN [r EXCEPT !.pc = "fetch", !.gw = "pending"]
           ELSE WInterpret(r, callAIFallbackText(body), "none")]
  /\ UNCHANGED <<env, now, lastRequestTime, analysisCache, call>>

\* how the fetch of the model endpoint settles before its body is read
FetchOutcomes == {"ok", "status", "network", "timeout"}

\* fetchWithTimeout: fetch settled (or was aborted)
WFetch(p, outcome) ==
  /\ env.variant = "worker"
  /\ req[p].pc = "fetch"
  /\ LET r == req[p]
     IN  req' = [req EXCEPT ![p] =
           IF outcome = "ok" THEN [r EXCEPT !.pc = "body"]
           ELSE WInterpret(r, callAIFallbackText(r.body), outcome)]
  /\ UNCHANGED <<env, now, lastRequestTime, analysisCache, call>>

\* what response.json() yields: a rejection, an envelope without message
\* content, or an envelope with content
Envelopes ==
  {[kind |-> "malformed"], [kind |-> "nocontent"]}
    \cup {[kind |-> "content", text |-> t] : t \in env.texts}

\* fetchWithTimeout: response.json() settled
WBody(p, envelope) ==
  /\ env.variant = "worker"
  /\ req[p].pc = "body"
  /\ LET r == req[p]
     IN  req' = [req EXCEPT ![p] =
           CASE envelope.kind = "malformed" ->
                  WInterpret(r, callAIFallbackText(r.body), "malformed")
             [] envelope.kind = "nocontent" ->
                  WInterpret(r, Trim(<<>>), "nocontent")
             [] OTHER -> WInterpret(r, Trim(envelope.text), "ok")]
  /\ UNCHANGED <<env, now, lastRequestTime, analysisCache, call>>

\* how the notifier call settles
NotifyOutcomes == {"ok", "status", "network", "timeout"}

\* TelegramService.sendMessage settled (it catches every error); respond 200
WTelegram(p, outcome) ==
  /\ env.variant = "worker"
  /\ req[p].pc = "telegram"
  /\ req' = [req EXCEPT ![p] =
       Respond([req[p] EXCEPT !.tg = outcome], SignalResp(req[p].parsed))]
  /\ UNCHANGED <<env, now, lastRequestTime, analysisCache, call>>

WorkerNext ==
  \/ \E p \in env.conns, m \in Methods, h \in Headers : WHandle(p, m, h)
  \/ \E p \in env.conns, b \in env.bodies : WJson(p, b)
  \/ \E p \in env.conns, o \in FetchOutcomes : WFetch(p, o)
  \/ \E p \in env.conns, e \in Envelopes : WBody(p, e)
  \/ \E p \in env.conns, o \in NotifyOutcomes : WTelegram(p, o)

(***************************************************************************)
(* handleRequest (src/index.js)                                            *)
(***************************************************************************)
\* mutant: a missing header reads as undefined, like a missing token
indexAuthOk_Mutant(header) ==
  \/ header = env.token
  \/ (header = Null /\ env.token = Undef)

\* the auth check of handleRequest passes
indexAuthOk(header) == ~(header # env.token)

\* handleRequest up to its first await (request.json())
IHandle(p, method, header) ==
  /\ env.variant = "index"
  /\ Free(p)
  /\ LET r == [Idle EXCEPT !.method = method, !.header = header]
     IN  req' = [req EXCEPT ![p] =
           IF method # "POST"
           THEN Respond(r, ErrorResp(405, "Method not allowed"))
           ELSE IF ~indexAuthOk(header)
           THEN Respond(r, ErrorResp(401, "Unauthorized"))
           ELSE [r EXCEPT !.pc = "json"]]
  /\ UNCHANGED <<env, now, lastRequestTime, analysisCache, call>>

\* !requestData.symbol || !requestData.timeframe
MissingRequired(b) ==
  \/ ~Has(b, "symbol") \/ b.symbol = ""
  \/ ~Has(b, "timeframe") \/ b.timeframe = ""

\* mutant: an entry exactly CACHE_TTL old still counts as fresh
CacheFresh_Mutant(key) ==
  /\ key \in DOMAIN analysisCache
  /\ now - analysisCache[key].timestamp <= CACHE_TTL

\* analysisCache.has(key) and the entry is younger than CACHE_TTL
CacheFresh(key) ==
  /\ key \in DOMAIN analysisCache
  /\ now - analysisCache[key].timestamp < CACHE_TTL

\* analysisCache.set(key, entry)
CacheSet(cache, key, entry) ==
  [k \in DOMAIN cache \cup {key} |-> IF k = key THEN entry ELSE cache[k]]

\* the catch block of handleRequest
Failed500 == ErrorResp(500, "Processing failed")

\* mutant: a cache hit refreshes the timestamp of the entry it served
IJson_Mutant(p, body) ==
  /\ env.variant = "index"
  /\ req[p].pc = "json"
  /\ LET r == [req[p] EXCEPT !.body = body]
         hit == body.json /\ ~MissingRequired(body) /\ CacheFresh(cacheKey(body))
     IN  /\ req' = [req EXCEPT ![p] =
               IF ~body.json \/ MissingRequired(body)
               THEN Respond(r, Failed500)
               ELSE IF CacheFresh(cacheKey(body))
               THEN Respond(r, SignalResp(analysisCache[cacheKey(body)].data))
               ELSE IF ~indexCallsModel(body)
               THEN Respond(r, Failed500)
               ELSE [r EXCEPT !.pc = "fetch", !.gw = "pending"]]
         /\ analysisCache' =
               IF hit
               THEN CacheSet(analysisCache, cacheKey(body),
                             [data |-> analysisCache[cacheKey(body)].data,
                              timestamp |-> now])
               ELSE analysisCache
  /\ UNCHANGED <<env, now, lastRequestTime, call>>

\* request.json() settled with body: field check, cache lookup, then callAI
\* up to fetch
IJson(p, body) ==
  /\ env.variant = "index"
  /\ req[p].pc = "json"
  /\ LET r == [req[p] EXCEPT !.body = body]
     IN  req' = [req EXCEPT ![p] =
           IF ~body.json \/ MissingRequired(body)
           THEN Respond(r, Failed500)
           ELSE IF CacheFresh(cacheKey(body))
           THEN Respond(r, SignalResp(analysisCache[cacheKey(body)].data))
           ELSE IF ~indexCallsModel(body)
           THEN Respond(r, Failed500)
           ELSE [r EXCEPT !.pc = "fetch", !.gw = "pending"]]
  /\ UNCHANGED <<env, now, lastRequestTime, analysisCache, call>>

\* how fetch of the model endpoint settles in index.js (it sets no timeout)
IndexFetchOutcomes == {"ok", "status", "network"}

\* callAI: fetch settled
IFetch(p, outcome) ==
  /\ env.variant = "index"
  /\ req[p].pc = "fetch"
  /\ LET r == req[p]
     IN  req' = [req EXCEPT ![p] =
           IF outcome = "ok" THEN [r EXCEPT !.pc = "body"]
           ELSE Respond([r EXCEPT !.gw = outcome], Failed500)]
  /\ UNCHANGED <<env, now, lastRequestTime, analysisCache, call>>

\* callAI: resp.json() settled; then parseAIResponse, filterSignal, the cache
\* store, and sendTelegramAlert up to its fetch
IBody(p, envelope) ==
  /\ env.variant = "index"
  /\ req[p].pc = "body"
  /\ LET r == req[p]
         b == r.body
     IN  IF envelope.kind # "content"
         THEN /\ req' = [req EXCEPT ![p] =
                   Respond([r EXCEPT !.gw = envelope.kind], Failed500)]
              /\ UNCHANGED analysisCache
         ELSE LET sg == filterSignal(parseAIResponse(envelope.text),
                                     b.indicators, b.volume, b.avgVolume,
                                     b.higherTF)
              IN  /\ analysisCache' =
                       CacheSet(analysisCache, cacheKey(b),
                                [data |-> sg, timestamp |-> now])
                  /\ req' = [req EXCEPT ![p] =
                       [r EXCEPT !.pc = "telegram", !.gw = "ok", !.parsed = sg]]
  /\ UNCHANGED <<env, now, lastRequestTime, call>>

\* how the notifier fetch settles in index.js (no timeout, no catch)
IndexNotifyOutcomes == {"ok", "status", "network"}

\* sendTelegramAlert settled: a rejected fetch reaches the catch block of
\* handleRequest, anything else ends in the 200 response
ITelegram(p, outcome) ==
  /\ env.variant = "index"
  /\ req[p].pc = "telegram"
  /\ LET r == [req[p] EXCEPT !.tg = outcome]
     IN  req' = [req EXCEPT ![p] =
           IF outcome = "network" THEN Respond(r, Failed500)
           ELSE Respond(r, SignalResp(r.parsed))]
  /\ UNCHANGED <<env, now, lastRequestTime, analysisCache, call>>

IndexNext ==
  \/ \E p \in env.conns, m \in Methods, h \in Headers : IHandle(p, m, h)
  \/ \E p \in env.conns, b \in env.bodies : IJson(p, b)
  \/ \E p \in env.conns, o \in IndexFetchOutcomes : IFetch(p, o)
  \/ \E p \in env.conns, e \in Envelopes : IBody(p, e)
  \/ \E p \in env.conns, o \in IndexNotifyOutcomes : ITelegram(p, o)

Next == Tick \/ WorkerNext \/ IndexNext

Spec == Init /\ [][Next]_vars

\* every connection a deployment may serve
Conns == {1, 2}

\* the callback of setTimeout in TradingAI.fetchWithTimeout runs: the pending
\* fetch of connection p is aborted
AbortFetch(p) == p \in env.conns /\ WFetch(p, "timeout")

\* the callback of setTimeout in TelegramService.fetchWithTimeout runs
AbortNotify(p) == p \in env.conns /\ WTelegram(p, "timeout")

\* The only steps the code itself guarantees to happen are the callbacks of
\* its timers, which the event loop runs once the delay has passed.  Whether
\* and when a fetch or a body read settles is up to the remote endpoint.
SpecLive ==
  /\ Init /\ [][Next]_vars
  /\ \A p \in Conns : WF_vars(AbortFetch(p)) /\ WF_vars(AbortNotify(p))

(***************************************************************************)
(* The pure functions, called once on an argument drawn from bounded sets  *)
(***************************************************************************)
\* the JSON object with the given properties; Undef = property absent
MkObj(sig, conf, expl) ==
  LET val(n) == CASE n = "signal" -> sig
                  [] n = "confidence" -> conf
                  [] OTHER -> expl
  IN  Obj([n \in {m \in {"signal", "confidence", "explanation"} : val(m) # Undef}
             |-> val(n)])

SignalOptions ==
  { Undef, Null, Str("buy"), Str("BUY"), Str("Sell"), Str("hold"),
    Str("STRONG BUY"), Str(""), Num(7), Num(0), Bool(TRUE), Arr }
ConfidenceOptions == { Undef, Str("high"), Str("extreme"), Num(7) }
ExplanationOptions ==
  { Undef, Null, Str(""), Str("ok"), Str(Rep("x", MaxExplanation)),
    Str(Rep("x", LongLen)), Num(7) }

JsonValues ==
  { MkObj(s, c, e) : s \in SignalOptions, c \in ConfidenceOptions,
                     e \in ExplanationOptions }
    \cup { Null, Num(7), Str("buy"), Bool(TRUE), Arr }

RawTexts ==
  { << Json(v) >> : v \in JsonValues }
    \cup { << Fence, Ws, Json(v), Ws, Fence >> : v \in JsonValues }
    \cup { << Ws, Json(v), Ws >> : v \in JsonValues }
    \cup { <<>>, << Ws >>, << Junk >>, << Fence, Junk, Fence >>,
           << Json(MkObj(Str("buy"), Undef, Undef)), Junk >>,
           << Json(Null), Ws, Json(MkObj(Str("buy"), Undef, Undef)) >> }

\* arguments of the interpreters: a raw text, or a value that is no string
ParseArgs == { Text(t) : t \in RawTexts } \cup { Undef }

ParseCalls ==
  { [NoCall EXCEPT !.fn = f, !.text = a] :
      f \in {"tryParseAI", "parseAIResponse"}, a \in ParseArgs }

FilterSignals ==
  { MkSignal(s, c, e) : s \in SignalEnum, c \in {Undef, Str("high")},
                        e \in {Str("because"), Str(Rep("x", MaxExplanation))} }

FilterCalls ==
  { [NoCall EXCEPT !.fn = "filterSignal", !.sg = g, !.rsi = r, !.volume = v,
                   !.avgVolume = 10, !.d1Trend = d] :
      g \in FilterSignals, r \in {20, 30, 50, 70, 75}, v \in {10, 12, 15},
      d \in {"strong bearish", "strong bullish", "bullish"} }

\* the indicators object with only the properties in present
Restrict(ind, present) == [n \in present |-> ind[n]]

\* indicator objects handed to generateFallbackSignal: each of ema9, ema21 and
\* rsi present or missing
FallbackIndicators ==
  { Restrict([ema9 |-> a, ema21 |-> b, rsi |-> r], present) :
      a \in {10990, 11000, 11010}, b \in {11000, 11005},
      r \in {0, 30, 31, 69, 70, 100},
      present \in SUBSET {"ema9", "ema21", "rsi"} }

FallbackCalls ==
  { [NoCall EXCEPT !.fn = "generateFallbackSignal", !.ind = i] :
      i \in FallbackIndicators }

generateFallbackSignalCall(c) ==
  [c EXCEPT !.done = TRUE, !.out = generateFallbackSignal(c.ind)]

\* tryParseAI called with any value: the replace call of line 213 is outside
\* the try block and throws on a value that is no string
tryParseAICall(c) ==
  IF c.text.t # "text" THEN [c EXCEPT !.done = TRUE, !.threw = TRUE]
  ELSE [c EXCEPT !.done = TRUE, !.out = tryParseAI(c.text.tokens)]

\* parseAIResponse called with any value: everything is inside the try block
parseAIResponseCall(c) ==
  IF c.text.t # "text"
  THEN [c EXCEPT !.done = TRUE,
                 !.out = MkSignal("hold", Str("low"), Str("Error parsing AI response"))]
  ELSE [c EXCEPT !.done = TRUE, !.out = parseAIResponse(c.text.tokens)]

filterSignalCall(c) ==
  [c EXCEPT !.done = TRUE,
            !.out = filterSignal(c.sg, [rsi |-> c.rsi], c.volume, c.avgVolume,
                                 [d1Trend |-> c.d1Trend])]

PureInit ==
  /\ env = Deployment("none", Undef, {}, {}, {}, 0)
  /\ now = StartTime
  /\ lastRequestTime = 0
  /\ analysisCache = <<>>
  /\ req = <<>>
  /\ call \in ParseCalls \cup FilterCalls \cup FallbackCalls

\* the call returns or throws
Evaluate ==
  /\ ~call.done
  /\ call' = CASE call.fn = "tryParseAI" -> tryParseAICall(call)
               [] call.fn = "parseAIResponse" -> parseAIResponseCall(call)
               [] call.fn = "generateFallbackSignal" ->
                    generateFallbackSignalCall(call)
               [] OTHER -> filterSignalCall(call)
  /\ UNCHANGED <<env, now, lastRequestTime, analysisCache, req>>

PureNext == Evaluate

SpecPure == PureInit /\ [][PureNext]_vars

(***************************************************************************)
(* Properties                                                              *)
(***************************************************************************)
\* connection p took a new request in this step
Arrived(p) == Free(p) /\ req'[p] # req[p]

\* the request on p got past the limiter, the method check and the auth
\* check, and its body was read as a JSON object
BodyRead(p) == req[p].pc # "idle" /\ req[p].body.json

InFlight(p) == req[p].pc \in {"json", "fetch", "body", "telegram"}

\* a model call was issued for the request on p
ModelCalled(p) == req[p].gw # "none"

GatewayFailures == {"network", "status", "timeout", "malformed", "nocontent"}
NotifierFailures == {"status", "network", "timeout"}

\* C1: in TradingWorker.handle a request arriving at time now passes the
\* limiter iff now - lastRequestTime >= 12000; a passing request sets
\* lastRequestTime to now in the same step, a rejected one is answered 429 and
\* leaves it unchanged; lastRequestTime changes in no other way, so two
\* passing requests are never less than 12 s apart.
C1_RateLimiter ==
  [][ env.variant = "worker" =>
        /\ \A p \in env.conns :
             Arrived(p) =>
               IF now - lastRequestTime >= CooldownMs
               THEN req'[p].resp.status # 429 /\ lastRequestTime' = now
               ELSE /\ req'[p].pc = "done" /\ req'[p].resp.status = 429
                    /\ lastRequestTime' = lastRequestTime
        /\ lastRequestTime' # lastRequestTime =>
             /\ now - lastRequestTime >= CooldownMs
             /\ lastRequestTime' = now
             /\ \E p \in env.conns : Arrived(p) /\ req'[p].resp.status # 429
    ]_vars

\* C1 witness: a second request passed 12 s or more after the first, one
\* request is in flight and an overlapping one was rejected with 429.
C1_Witness ==
  /\ env.variant = "worker"
  /\ lastRequestTime >= StartTime + CooldownMs
  /\ \E p, q \in env.conns :
       p # q /\ InFlight(p) /\ req[q].pc = "done" /\ req[q].resp.status = 429

\* the x-api-key header is present and equals the configured token
KeyCorrect(header) ==
  header.t = "string" /\ env.token.t = "string" /\ header.s = env.token.s

\* C2: in TradingWorker.handle authentication is decided before the rate
\* limiter: a POST with a missing or wrong x-api-key is answered 401 and
\* leaves lastRequestTime unchanged.
C2_AuthBeforeLimiter ==
  [][ env.variant = "worker" =>
        \A p \in env.conns :
          (Arrived(p) /\ req'[p].method = "POST" /\ ~KeyCorrect(req'[p].header))
            => (req'[p].resp.status = 401 /\ lastRequestTime' = lastRequestTime)
    ]_vars

\* C3: in both handlers a failed model call (network error, non-success
\* status, timeout, malformed or empty envelope) still ends in a 200 response
\* whose signal is buy, sell or hold.
C3_GatewayFailureAbsorbed ==
  \A p \in DOMAIN req :
    (req[p].pc = "done" /\ req[p].gw \in GatewayFailures)
      => (req[p].resp.status = 200 /\ req[p].resp.signal.signal \in SignalEnum)

\* the snapshot breaks one of the rules the validator is specified to
\* enforce: RSI or ADX outside [0,100], negative ATR, high < low, or a
\* non-positive OHLC price
SnapshotInvalid(b) ==
  \/ b.indicators.rsi < 0 \/ b.indicators.rsi > 100
  \/ (Has(b, "adx") /\ (b.adx < 0 \/ b.adx > 100))
  \/ (Has(b, "atr") /\ b.atr < 0)
  \/ b.ohlc.high < b.ohlc.low
  \/ b.ohlc.open <= 0 \/ b.ohlc.high <= 0 \/ b.ohlc.low <= 0 \/ b.ohlc.close <= 0

\* every property the handler requires is present in the body
AllFieldsPresent(b) ==
  IF env.variant = "worker"
  THEN \A i \in 1..Len(Required) : Has(b, Required[i])
  ELSE Has(b, "symbol") /\ Has(b, "timeframe") /\ Has(b, "ohlc")
       /\ Has(b, "indicators")

\* C4: in both handlers a request that has every required field but whose
\* snapshot fails validation is answered 400.
C4_ValidationIs400 ==
  \A p \in DOMAIN req :
    (req[p].pc = "done" /\ BodyRead(p) /\ AllFieldsPresent(req[p].body)
       /\ SnapshotInvalid(req[p].body))
      => req[p].resp.status = 400

\* the body passes the validator of the deployed handler
PassesValidator(b) ==
  IF env.variant = "worker" THEN validateInputs(b) ELSE validateTradingData(b)

\* C5: in both handlers no model call is issued for a request whose snapshot
\* fails that handler's validator.
C5_InvalidNeverReachesModel ==
  \A p \in DOMAIN req :
    ModelCalled(p) => (BodyRead(p) /\ PassesValidator(req[p].body))

\* C5 witness: TradingWorker answered a request whose snapshot failed
\* validateInputs, and no model call was made for it.
C5_Witness ==
  /\ env.variant = "worker"
  /\ \E p \in DOMAIN req :
       /\ req[p].pc = "done" /\ BodyRead(p)
       /\ parseRequestError(req[p].body) = ""
       /\ ~validateInputs(req[p].body)
       /\ ~ModelCalled(p)
       /\ req[p].resp.status = 200

\* C6: in both handlers, once a final signal was produced the response is the
\* 200 response carrying that signal, however the notifier call settles.
C6_NotifierNeverAffectsResponse ==
  \A p \in DOMAIN req :
    (req[p].pc = "done" /\ req[p].tg # "none")
      => req[p].resp = SignalResp(req[p].parsed)

\* the handler on p finished the step that follows request.json()
JsonStep(p) == req[p].pc = "json" /\ req'[p].pc # "json"

\* no other connection is in the middle of a request
Sequential(p) == \A q \in DOMAIN req \ {p} : Free(q)

\* the request on p was answered from the cache entry e without a model call
ServedFrom(r, e) ==
  r.pc = "done" /\ r.resp = SignalResp(e.data) /\ r.gw = "none"

\* C7 as stated: for requests handled one after another by handleRequest,
\* a request whose key has an entry stored at time t is answered with the
\* stored signal and no model call when now - t < 30000, and issues a model
\* call when now - t >= 30000.
C7_CacheWindowAsStated ==
  [][ env.variant = "index" =>
        \A p \in DOMAIN req :
          (JsonStep(p) /\ Sequential(p) /\ req'[p].body.json
             /\ ~MissingRequired(req'[p].body)
             /\ cacheKey(req'[p].body) \in DOMAIN analysisCache)
            => LET e == analysisCache[cacheKey(req'[p].body)]
               IN  IF now - e.timestamp < CACHE_TTL
                   THEN ServedFrom(req'[p], e)
                   ELSE req'[p].pc = "fetch"
    ]_vars

\* C7 amended: as above, but when now - t >= 30000 the request is a miss: it
\* is not answered from the cache, and it issues a model call iff it passes
\* validateTradingData and the prompt can be built; otherwise it is answered
\* 500 without a model call.
C7_CacheWindow ==
  [][ env.variant = "index" =>
        \A p \in DOMAIN req :
          (JsonStep(p) /\ Sequential(p) /\ req'[p].body.json
             /\ ~MissingRequired(req'[p].body)
             /\ cacheKey(req'[p].body) \in DOMAIN analysisCache)
            => LET e == analysisCache[cacheKey(req'[p].body)]
                   b == req'[p].body
               IN  IF now - e.timestamp < CACHE_TTL
                   THEN ServedFrom(req'[p], e)
                   ELSE IF validateTradingData(b) /\ indexPromptOk(b)
                   THEN req'[p].pc = "fetch" /\ req'[p].gw = "pending"
                   ELSE /\ req'[p].pc = "done" /\ req'[p].resp.status = 500
                        /\ req'[p].gw = "none"
    ]_vars

\* C7 witness: handleRequest answered a request from the cache without a
\* model call, and the entry it was served from is 15 s old.
C7_Witness ==
  /\ env.variant = "index"
  /\ \E p \in DOMAIN req :
       /\ BodyRead(p) /\ ~MissingRequired(req[p].body)
       /\ cacheKey(req[p].body) \in DOMAIN analysisCache
       /\ now - analysisCache[cacheKey(req[p].body)].timestamp = TickMs
       /\ ServedFrom(req[p], analysisCache[cacheKey(req[p].body)])

\* the signal the model gave: the lowercased signal property of the JSON
\* object left after stripping fences and white space ("" when there is none)
ModelSignal(tokens) ==
  LET c == Trim(StripFences(tokens))
  IN  IF JsonParses(c) /\ Prop(JsonValue(c), "signal").t = "string"
      THEN ToLowerCase(Prop(JsonValue(c), "signal").s)
      ELSE ""

\* the model's JSON object carries an explanation that is truthy and no string
BadExplanation(tokens) ==
  LET c == Trim(StripFences(tokens))
  IN  /\ JsonParses(c)
      /\ Truthy(Prop(JsonValue(c), "explanation"))
      /\ Prop(JsonValue(c), "explanation").t # "string"

ParseFns == {"tryParseAI", "parseAIResponse"}

\* C8 as stated: for every raw text tryParseAI and parseAIResponse return
\* without throwing; the signal is the lowercased model signal when that is
\* buy, sell or hold, and hold in every other case.
C8_InterpreterAsStated ==
  (call.done /\ call.fn \in ParseFns /\ call.text.t = "text")
    => /\ ~call.threw
       /\ call.out.signal =
            IF ModelSignal(call.text.tokens) \in SignalEnum
            THEN ModelSignal(call.text.tokens) ELSE "hold"

\* C8 amended: as above, except that tryParseAI also returns hold when the
\* model's explanation is present (truthy) and is not a string.
C8_InterpreterTotal ==
  (call.done /\ call.fn \in ParseFns /\ call.text.t = "text")
    => /\ ~call.threw
       /\ call.out.signal =
            IF /\ ModelSignal(call.text.tokens) \in SignalEnum
               /\ ~(call.fn = "tryParseAI" /\ BadExplanation(call.text.tokens))
            THEN ModelSignal(call.text.tokens) ELSE "hold"

\* C8 witness: tryParseAI returned {signal: "buy", explanation: "ok"} for the
\* fenced text {"signal":"BUY","explanation":"ok"}.
C8_Witness ==
  /\ call.done /\ call.fn = "tryParseAI"
  /\ call.text =
       Text(<< Fence, Ws, Json(MkObj(Str("BUY"), Undef, Str("ok"))), Ws, Fence >>)
  /\ call.out = MkSignal("buy", Undef, Str("ok"))

\* sg satisfies the Signal type of the data model
TypedSignal(sg) ==
  /\ sg.signal \in SignalEnum
  /\ sg.explanation.t = "string"
  /\ Len(sg.explanation.s) <= MaxExplanation
  /\ (sg.confidence # Undef =>
        (sg.confidence.t = "string" /\ sg.confidence.s \in ConfidenceEnum))

\* C9: every Signal that a handler puts in a 200 response, stores in the
\* cache or hands to the notifier has signal in {buy, sell, hold}, a string
\* explanation of at most 500 characters and, if present, a confidence in
\* {high, medium, low}.
C9_TypedSignalEverywhere ==
  /\ \A p \in DOMAIN req :
       /\ (req[p].pc = "done" /\ req[p].resp.status = 200)
            => TypedSignal(req[p].resp.signal)
       /\ (req[p].pc = "telegram" \/ req[p].tg # "none")
            => TypedSignal(req[p].parsed)
  /\ \A k \in DOMAIN analysisCache : TypedSignal(analysisCache[k].data)

\* C10: filterSignal returns the input signal or hold; hold stays hold, and
\* buy and sell are never exchanged.
C10_FilterOnlyDowngrades ==
  (call.done /\ call.fn = "filterSignal")
    => /\ call.out.signal \in {call.sg.signal, "hold"}
       /\ (call.sg.signal = "hold" => call.out.signal = "hold")
       /\ ~(call.sg.signal = "buy" /\ call.out.signal = "sell")
       /\ ~(call.sg.signal = "sell" /\ call.out.signal = "buy")

\* C10 witness: filterSignal turned a buy into hold.
C10_Witness ==
  /\ call.done /\ call.fn = "filterSignal"
  /\ call.sg.signal = "buy" /\ call.out.signal = "hold"

\* the proposed signal contradicts a strong higher-timeframe (D1) trend
TrendContradiction(c) ==
  \/ (c.sg.signal = "buy" /\ c.d1Trend = "strong bearish")
  \/ (c.sg.signal = "sell" /\ c.d1Trend = "strong bullish")

\* C11: filterSignal overrides a buy against a strongly bearish D1 trend, and
\* likewise a sell against a strongly bullish D1 trend, to hold with
\* confidence low.
C11_TrendRuleSymmetric ==
  (call.done /\ call.fn = "filterSignal" /\ TrendContradiction(call))
    => (call.out.signal = "hold" /\ call.out.confidence = Str("low"))

\* extreme RSI in the direction of the signal without volume confirmation
MomentumRejected(c) ==
  /\ \/ (c.sg.signal = "buy" /\ c.rsi > 70)
     \/ (c.sg.signal = "sell" /\ c.rsi < 30)
  /\ c.volume * 10 < c.avgVolume * 12

\* s is t followed by at least one more character
ProperPrefix(t, s) == Len(s) > Len(t) /\ SubSeq(s, 1, Len(t)) = t

\* C12: when the proposed signal is buy with rsi > 70, or sell with rsi < 30,
\* and volume < 1.2 * avgVolume, filterSignal returns hold with confidence low
\* and an explanation that is the input explanation followed by a rejection
\* note; when neither this rule nor the trend-contradiction rule applies, the
\* input Signal is returned unchanged.
C12_MomentumRule ==
  (call.done /\ call.fn = "filterSignal")
    => /\ MomentumRejected(call) =>
            /\ call.out.signal = "hold"
            /\ call.out.confidence = Str("low")
            /\ call.out.explanation.t = "string"
            /\ ProperPrefix(ToStringJS(call.sg.explanation),
                            call.out.explanation.s)
       /\ (~MomentumRejected(call) /\ ~TrendContradiction(call)) =>
            call.out = call.sg

\* C12 witness: a buy with rsi 75 and volume equal to the average came back
\* as hold with the rejection note appended to its explanation.
C12_Witness ==
  /\ call.done /\ call.fn = "filterSignal"
  /\ call.sg.signal = "buy" /\ call.rsi = 75 /\ call.d1Trend = "bullish"
  /\ call.volume = 10 /\ call.out.signal = "hold"
  /\ call.out.explanation
       = Str("because (Rejected: Extreme RSI without volume confirmation)")

\* a < b in JavaScript when either side may be undefined (then it is false)
LessJS(ind, a, b) == HasNum(ind, a) /\ HasNum(ind, b) /\ ind[a] < ind[b]

\* rsi < n, false when rsi is undefined
RsiBelow(ind, n) == HasNum(ind, "rsi") /\ ind.rsi < n
RsiAbove(ind, n) == HasNum(ind, "rsi") /\ ind.rsi > n

\* C13: for every (ema9, ema21, rsi), any of them possibly missing,
\* generateFallbackSignal returns without throwing exactly one signal: buy iff
\* ema9 > ema21 and rsi < 70; otherwise sell iff ema9 < ema21 and rsi > 30;
\* otherwise hold.  The call touches neither the limiter, the cache nor any
\* request (it issues no network call and changes no state).
C13_FallbackTotal ==
  /\ [](  (call.done /\ call.fn = "generateFallbackSignal")
          => LET i == call.ind
                 buy == LessJS(i, "ema21", "ema9") /\ RsiBelow(i, 70)
                 sell == LessJS(i, "ema9", "ema21") /\ RsiAbove(i, 30)
             IN  /\ ~call.threw
                 /\ call.out.signal \in SignalEnum
                 /\ (call.out.signal = "buy") <=> buy
                 /\ (call.out.signal = "sell") <=> (~buy /\ sell)
                 /\ (call.out.signal = "hold") <=> (~buy /\ ~sell) )
  /\ [][ call.fn = "generateFallbackSignal" =>
           UNCHANGED <<now, lastRequestTime, analysisCache, req>> ]_vars

\* C13 witness: generateFallbackSignal returned hold for an object without
\* rsi whose ema9 is above its ema21.
C13_Witness ==
  /\ call.done /\ call.fn = "generateFallbackSignal"
  /\ call.ind = [ema9 |-> 11010, ema21 |-> 11000]
  /\ call.out.signal = "hold"

\* the handler on p is suspended in its model call: waiting for the response
\* headers (fetch) or for the response body (body)
AwaitingModel(p) == p \in env.conns /\ req[p].pc \in {"fetch", "body"}

\* C14: every request that reached the model gateway is eventually answered,
\* even if the model endpoint never sends headers or never finishes the body.
C14_BoundedModelCall ==
  \A p \in Conns :
    AwaitingModel(p) ~> (p \in env.conns /\ req[p].pc = "done")

\* the body is a valid MarketSnapshot for TradingWorker: every required
\* property is present and the values are within the ranges of the data model
ValidWorkerBody(b) ==
  /\ b.json
  /\ \A i \in 1..Len(Required) : Has(b, Required[i])
  /\ ~SnapshotInvalid(b)

\* C15: on TradingWorker.handle a POST with the correct x-api-key that
\* arrives less than 12 s after the last accepted request is answered 429;
\* one that arrives first in the window, or 12 s or more after the last
\* accepted request, is accepted, and if its body is valid it is answered 200
\* with a signal in {buy, sell, hold}, however the model call settles.
C15_EndToEnd ==
  /\ [][ env.variant = "worker" =>
           \A p \in env.conns :
             (Arrived(p) /\ req'[p].method = "POST" /\ KeyCorrect(req'[p].header))
               => IF now - lastRequestTime < CooldownMs
                  THEN req'[p].pc = "done" /\ req'[p].resp.status = 429
                  ELSE req'[p].pc = "json" ]_vars
  /\ [](env.variant = "worker" =>
          \A p \in env.conns :
            (req[p].pc = "done" /\ BodyRead(p) /\ ValidWorkerBody(req[p].body))
              => /\ req[p].resp.status = 200
                 /\ req[p].resp.signal.signal \in SignalEnum)

\* the request arriving on p gets as far as the auth check of its handler:
\* it is a POST and, in TradingWorker, the limiter let it pass
ReachesAuthCheck(p) ==
  /\ Arrived(p)
  /\ req'[p].method = "POST"
  /\ env.variant = "worker" => now - lastRequestTime >= CooldownMs

C17_MethodCheck ==
  [][ \A p \in DOMAIN req :
        (Arrived(p) /\ req'[p].method # "POST")
          => /\ req'[p].pc = "done" /\ req'[p].resp.status = 405
             /\ req'[p].gw = "none" /\ req'[p].tg = "none" ]_vars

\* a model call issued for the request on q has not yet led to a cache store
CallInFlight(q) == req[q].pc \in {"fetch", "body"}

\* C18: in handleRequest no model call is issued for a cache key while an
\* earlier model call for the same key is still in flight, nor while a stored
\* entry for the key is younger than 30 s: at most one call per key and window.
C18_OneCallPerKey ==
  [][ env.variant = "index" =>
        \A p \in DOMAIN req :
          (req[p].pc = "json" /\ req'[p].pc = "fetch")
            => LET key == cacheKey(req'[p].body)
               IN  /\ ~CacheFresh(key)
                   /\ \A q \in DOMAIN req \ {p} :
                        ~(CallInFlight(q) /\ cacheKey(req[q].body) = key)
    ]_vars

\* C19: in TradingWorker.handle, when the model call of a valid request fails
\* (network error, non-success status, timeout, unreadable envelope or an
\* envelope without message content), the signal of the 200 response is
\* generateFallbackSignal of that request's own indicators.
C19_FallbackUsesIndicators ==
  env.variant = "worker" =>
    \A p \in DOMAIN req :
      (req[p].pc = "done" /\ req[p].gw \in GatewayFailures)
        => /\ req[p].resp.status = 200
           /\ req[p].resp.signal.signal
                = generateFallbackSignal(req[p].body.indicators).signal

\* C20: in TradingAI.callAI a valid request that omits macd_hist_prev is
\* processed as if macd_hist_prev = 0: the prompt is built and the model
\* gateway is invoked, the request is not diverted to the fallback signal.
C20_MacdHistPrevDefault ==
  env.variant = "worker" =>
    \A p \in DOMAIN req :
      (/\ BodyRead(p)
       /\ ValidWorkerBody(req[p].body)
       /\ parseRequestError(req[p].body) = ""
       /\ ~Has(req[p].body, "macd_hist_prev"))
        => ModelCalled(p)

\* C21: TradingWorker.parseRequest answers 400 'Missing <field>' only for a
\* required field that is absent from the JSON body; a body in which every
\* required field is present -- also with the value 0 for adx, atr,
\* volume_ratio, support or resistance -- is not rejected as missing.
C21_RejectsOnlyAbsentFields ==
  env.variant = "worker" =>
    \A p \in DOMAIN req :
      (req[p].pc = "done" /\ BodyRead(p))
        => /\ \A i \in 1..Len(Required) :
                (/\ req[p].resp.status = 400
                 /\ req[p].resp.error = "Missing " \o Required[i])
                  => ~Has(req[p].body, Required[i])
           /\ (\E i \in 1..Len(Required) : ~Has(req[p].body, Required[i]))
                => req[p].resp.status = 400
           /\ (\A i \in 1..Len(Required) : Has(req[p].body, Required[i]))
                => req[p].resp.status # 400

\* the step after request.json() of the request on p finds a fresh entry for
\* the key of its body: a cache hit
CacheHit(p) ==
  /\ JsonStep(p)
  /\ req'[p].body.json /\ ~MissingRequired(req'[p].body)
  /\ CacheFresh(cacheKey(req'[p].body))

\* C22: a cache hit in handleRequest answers with the stored signal, issues
\* no model call and no notification and leaves the cache unchanged (the
\* timestamp of the entry is not refreshed); an entry that is 30 s old or more
\* is never served, however often it was hit before.
C22_CacheHitNoSideEffects ==
  [][ env.variant = "index" =>
        \A p \in DOMAIN req :
          /\ CacheHit(p) =>
               /\ analysisCache' = analysisCache
               /\ ServedFrom(req'[p], analysisCache[cacheKey(req'[p].body)])
               /\ req'[p].tg = "none"
          /\ (/\ JsonStep(p) /\ req'[p].body.json
              /\ ~MissingRequired(req'[p].body)
              /\ cacheKey(req'[p].body) \in DOMAIN analysisCache
              /\ now - analysisCache[cacheKey(req'[p].body)].timestamp >= CACHE_TTL)
               => /\ req'[p].resp.status # 200
                  /\ analysisCache' = analysisCache
    ]_vars

\* C22 witness: two requests were answered from the same entry, which is
\* 15 s old and still carries the time at which it was stored.
C22_Witness ==
  /\ env.variant = "index"
  /\ \E p, q \in DOMAIN req :
       /\ p # q
       /\ BodyRead(p) /\ BodyRead(q)
       /\ cacheKey(req[p].body) = cacheKey(req[q].body)
       /\ cacheKey(req[p].body) \in DOMAIN analysisCache
       /\ LET e == analysisCache[cacheKey(req[p].body)]
          IN  /\ now - e.timestamp = TickMs
              /\ ServedFrom(req[p], e) /\ ServedFrom(req[q], e)

=============================================================================
